---------------------------- MODULE Spec2Model ----------------------------
(***************************************************************************)
(* A model of the news feed cache of ai-news-plugin:                       *)
(* src/news_feed_plugin.py, class NewsFeedManager, the plugin functions    *)
(* around it and the command line entry point main().                      *)
(*                                                                         *)
(* JSON values are tagged records; a Python dict is a TLA+ function from   *)
(* its keys; a Python str is the sequence of its characters (a key or a    *)
(* word stands for one character where only its type or its identity is    *)
(* read).  The store file is a sequence of cells, one per encoded token,   *)
(* so that a truncation, a partial write and two writers' overlapping      *)
(* writes are what they are on a file system.                              *)
(***************************************************************************)
EXTENDS Naturals, Sequences, FiniteSets, TLC

VARIABLES
    file,       \* the store file: [exists, cells]
    pc,         \* per process: "idle", "open", "write", "done"
    call,       \* per process: the arguments of the running invocation
    resp,       \* per process: what the sources answered to this refresh
    articles,   \* per process: the list update_news_data built
    woff,       \* per process: the write offset of its open file object
    ret,        \* per process: what the manager method returned or raised
    out,        \* per process: what main() emitted
    error,      \* per process: the exception raised inside update_news_data
    during      \* per process: its query read the store inside the other's refresh

vars == <<file, pc, call, resp, articles, woff, ret, out, error, during>>

Procs == {1, 2}

\* The largest number of items one source answers with.
MaxItems == 1

(***************************************************************************)
(* JSON values                                                             *)
(***************************************************************************)
JNull == [t |-> "null"]
JBool(b) == [t |-> "bool", b |-> b]
JNum(n) == [t |-> "num", n |-> n]
JStr(cs) == [t |-> "str", chars |-> cs]
JList(s) == [t |-> "list", elems |-> s]
JObj(f) == [t |-> "obj", fields |-> f]

NoFields == [k \in {} |-> JNull]

S(word) == JStr(<<word>>)

\* The outcome of a Python expression: a value, or an exception by class name.
Val(v) == [exc |-> "", val |-> v]
Raise(e) == [exc |-> e]

\* bool(x) of the values `if not x` is applied to.
Truthy(x) ==
    CASE x.t = "null" -> FALSE
      [] x.t = "str" -> x.chars # <<>>
      [] x.t = "list" -> x.elems # <<>>
      [] x.t = "obj" -> DOMAIN x.fields # {}
      [] x.t = "bool" -> x.b
      [] OTHER -> TRUE

\* x[key] for a str key.
Subscript(x, key) ==
    IF x.t = "obj"
    THEN IF key \in DOMAIN x.fields THEN Val(x.fields[key]) ELSE Raise("KeyError")
    ELSE Raise("TypeError")

\* The keys update_news_data gives an article, in the order it inserts them.
FieldOrder == <<"Published", "Title", "Description", "Link">>

RECURSIVE AnyOrder(_)
AnyOrder(ks) ==
    IF ks = {} THEN <<>>
    ELSE LET k == CHOOSE k \in ks : TRUE IN <<k>> \o AnyOrder(ks \ {k})

\* The keys of a dict in its insertion order (an article's four first).
KeySeq(ks) ==
    SelectSeq(FieldOrder, LAMBDA k : k \in ks)
        \o AnyOrder(ks \ {FieldOrder[i] : i \in 1..Len(FieldOrder)})

\* `for e in x`: the elements of a list, the keys of a dict, the characters of
\* a str; anything else is not iterable.
Iterate(x) ==
    CASE x.t = "list" -> Val(x.elems)
      [] x.t = "obj" ->
            LET ks == KeySeq(DOMAIN x.fields)
            IN Val([i \in 1..Len(ks) |-> S(ks[i])])
      [] x.t = "str" -> Val([i \in 1..Len(x.chars) |-> JStr(<<x.chars[i]>>)])
      [] OTHER -> Raise("TypeError")

(***************************************************************************)
(* The sources' answers                                                    *)
(***************************************************************************)
Sensors == <<"sensor.global_news_toronto_rest", "sensor.global_news_main_rest">>

ItemA == JObj([pubDate |-> S("Mon, 01 Jan 2024"), title |-> S("A"),
               link |-> S("http://x")])
ItemA2 == JObj([pubDate |-> S("Wed, 03 Jan 2024"), title |-> S("A"),
                description |-> S("d2"), link |-> S("http://z")])
ItemB == JObj([pubDate |-> S("Tue, 02 Jan 2024"), title |-> S("B"),
               description |-> S("d"), link |-> S("http://y")])
ItemNoLink == JObj([pubDate |-> S("Thu, 04 Jan 2024"), title |-> S("B")])

ValidItems == {ItemA, ItemA2, ItemB}

\* The state object of a sensor whose feed is `items`.
Payload(items) ==
    JObj([attributes |-> JObj([rss |-> JObj([channel |-> JObj([item |-> items])])])])

Answer(status, isJson, data) ==
    [net |-> "ok", status |-> status, json |-> isJson, data |-> data]

Refused == [net |-> "refused"]

RECURSIVE SeqsUpTo(_, _)
SeqsUpTo(X, n) ==
    IF n = 0 THEN {<<>>}
    ELSE LET shorter == SeqsUpTo(X, n - 1)
         IN shorter \cup {Append(s, x) : s \in shorter, x \in X}

GoodAnswers == {Answer(200, TRUE, Payload(JList(s))) : s \in SeqsUpTo(ValidItems, MaxItems)}

\* Answers that are no feed: the request fails, the status is an error, the
\* body is no JSON, the item path is missing, or the item value is no list,
\* or a list whose elements are no complete items.
OddAnswers ==
    { Refused,
      Answer(500, TRUE, JObj(NoFields)),
      Answer(200, FALSE, JNull),
      Answer(200, TRUE, JObj([state |-> S("unknown")])),
      Answer(200, TRUE, Payload(JNull)),
      Answer(200, TRUE, Payload(JObj(NoFields))),
      Answer(200, TRUE, Payload(ItemB)),
      Answer(200, TRUE, Payload(JList(<<ItemA, JNum(5)>>))),
      Answer(200, TRUE, Payload(JList(<<ItemB, ItemNoLink>>))) }

Answers == GoodAnswers \cup OddAnswers

AnswerLists(X) == {<<a, b>> : a \in X, b \in X}

NoAnswers == <<>>

(***************************************************************************)
(* update_news_data: the fetch loop                                        *)
(***************************************************************************)
\* One element of the list comprehension.
MapItem(item) ==
    LET pub == Subscript(item, "pubDate")
        ttl == Subscript(item, "title")
        lnk == Subscript(item, "link")
    IN IF pub.exc # "" THEN pub
       ELSE IF ttl.exc # "" THEN ttl
       ELSE IF lnk.exc # "" THEN lnk
       ELSE Val(JObj([Published |-> pub.val,
                      Title |-> ttl.val,
                      Description |-> IF "description" \in DOMAIN item.fields
                                      THEN item.fields["description"]
                                      ELSE S("No description"),
                      Link |-> lnk.val]))

\* The list comprehension over the items, left to right.
RECURSIVE MapItems(_)
MapItems(items) ==
    IF items = <<>> THEN Val(<<>>)
    ELSE LET first == MapItem(Head(items))
         IN IF first.exc # "" THEN first
            ELSE LET rest == MapItems(Tail(items))
                 IN IF rest.exc # "" THEN rest
                    ELSE Val(<<first.val>> \o rest.val)

\* data["attributes"]["rss"]["channel"]["item"]
RECURSIVE Path(_, _)
Path(data, keys) ==
    IF keys = <<>> THEN Val(data)
    ELSE LET step == Subscript(data, Head(keys))
         IN IF step.exc # "" THEN step ELSE Path(step.val, Tail(keys))

\* The body of the loop for one sensor: the articles of its answer.
FetchOne(answer) ==
    IF answer.net = "refused" THEN Raise("ConnectionError")
    ELSE IF answer.status >= 400 THEN Raise("HTTPError")
    ELSE IF ~answer.json THEN Raise("JSONDecodeError")
    ELSE LET items == Path(answer.data, <<"attributes", "rss", "channel", "item">>)
         IN IF items.exc # "" THEN items
            ELSE LET it == Iterate(items.val)
                 IN IF it.exc # "" THEN it ELSE MapItems(it.val)

\* articles.extend(...)
Extend(list, more) == list \o more

\* The loop over the sensors, from sensor i on, `acc` built so far.
RECURSIVE Fetch(_, _, _)
Fetch(answers, i, acc) ==
    IF i > Len(Sensors) THEN Val(acc)
    ELSE LET one == FetchOne(answers[i])
         IN IF one.exc # "" THEN one
            ELSE Fetch(answers, i + 1, Extend(acc, one.val))

\* A handler that catches the errors of the requests library only.
CaughtRequestsOnly(e) == e \in {"ConnectionError", "HTTPError"}

\* `except Exception`: the classes the handler of update_news_data catches.
CaughtByUpdate(e) ==
    e \in {"ConnectionError", "HTTPError", "JSONDecodeError", "KeyError",
           "TypeError", "PermissionError", "OSError"}


(***************************************************************************)
(* The store file                                                          *)
(***************************************************************************)
LB == [c |-> "["]
RB == [c |-> "]"]
Elem(v) == [c |-> "value", v |-> v]
\* A zero byte: what a write beyond the end of the file leaves in the gap.
Nul == [c |-> "nul"]
\* Characters that are no JSON token.
Junk == [c |-> "junk"]
\* Bytes that are no text in the encoding the file is opened with.
BadBytes == [c |-> "bytes"]

Absent == [exists |-> FALSE, cells |-> <<>>]
FileOf(cells) == [exists |-> TRUE, cells |-> cells]

\* json.dump(articles, f, indent=2): the characters written, token by token.
Dump(list) == <<LB>> \o [i \in 1..Len(list) |-> Elem(list[i])] \o <<RB>>

\* An open that creates the file but keeps what an existing file holds.
OpenKeeping(f) == FileOf(f.cells)

\* open(output_file, "w") creates the file or truncates it.
OpenForWrite(f) == FileOf(<<>>)

\* A write of `chunk` at offset `off` of a file opened without O_APPEND.
WriteAt(f, off, chunk) ==
    LET n == IF Len(f.cells) > off + Len(chunk) THEN Len(f.cells) ELSE off + Len(chunk)
    IN FileOf([i \in 1..n |->
                 IF i > off /\ i <= off + Len(chunk) THEN chunk[i - off]
                 ELSE IF i <= Len(f.cells) THEN f.cells[i]
                 ELSE Nul])

\* json.load on the text of the file.
Parse(cells) ==
    IF Len(cells) = 1 /\ cells[1].c = "value" THEN Val(cells[1].v)
    ELSE IF /\ Len(cells) >= 2
            /\ cells[1] = LB
            /\ cells[Len(cells)] = RB
            /\ \A i \in 2..(Len(cells) - 1) : cells[i].c = "value"
         THEN Val(JList([i \in 1..(Len(cells) - 2) |-> cells[i + 1].v]))
         ELSE Raise("JSONDecodeError")

\* open(output_file, "r") and json.load(f), before any handler.
ReadStore(f) ==
    IF ~f.exists THEN Raise("FileNotFoundError")
    ELSE IF \E i \in 1..Len(f.cells) : f.cells[i] = BadBytes
         THEN Raise("UnicodeDecodeError")
         ELSE Parse(f.cells)

\* The two except clauses of get_file_contents.
CaughtByLoad(e) == e \in {"FileNotFoundError", "JSONDecodeError"}

get_file_contents(f) ==
    LET r == ReadStore(f)
    IN IF r.exc # "" /\ CaughtByLoad(r.exc) THEN Val(JList(<<>>)) ELSE r

\* The titles with every repeated title dropped.
RECURSIVE UniqueTitlesOf(_)
UniqueTitlesOf(elems) ==
    IF elems = <<>> THEN Val(<<>>)
    ELSE LET last == Subscript(elems[Len(elems)], "Title")
             before == UniqueTitlesOf(SubSeq(elems, 1, Len(elems) - 1))
         IN IF before.exc # "" THEN before
            ELSE IF last.exc # "" THEN last
            ELSE IF \E i \in 1..Len(before.val) : before.val[i] = last.val
                 THEN before
                 ELSE Val(Append(before.val, last.val))

\* [article["Title"] for article in articles]
RECURSIVE TitlesOf(_)
TitlesOf(elems) ==
    IF elems = <<>> THEN Val(<<>>)
    ELSE LET first == Subscript(Head(elems), "Title")
         IN IF first.exc # "" THEN first
            ELSE LET rest == TitlesOf(Tail(elems))
                 IN IF rest.exc # "" THEN rest
                    ELSE Val(<<first.val>> \o rest.val)

get_all_titles(f) ==
    LET loaded == get_file_contents(f)
    IN IF loaded.exc # "" THEN loaded
       ELSE LET it == Iterate(loaded.val)
            IN IF it.exc # "" THEN it
               ELSE LET ts == TitlesOf(it.val)
                    IN IF ts.exc # "" THEN ts ELSE Val(JList(ts.val))

\* A scan that keeps the last article with the title, not the first.
RECURSIVE ScanLast(_, _)
ScanLast(elems, title) ==
    IF elems = <<>> THEN Val(JNull)
    ELSE LET t == Subscript(elems[Len(elems)], "Title")
         IN IF t.exc # "" THEN t
            ELSE IF t.val = title THEN Val(elems[Len(elems)])
            ELSE ScanLast(SubSeq(elems, 1, Len(elems) - 1), title)

\* The loop of get_article_info; None when it ends.
RECURSIVE Scan(_, _)
Scan(elems, title) ==
    IF elems = <<>> THEN Val(JNull)
    ELSE LET t == Subscript(Head(elems), "Title")
         IN IF t.exc # "" THEN t
            ELSE IF t.val = title THEN Val(Head(elems))
            ELSE Scan(Tail(elems), title)

get_article_info(f, title) ==
    LET loaded == get_file_contents(f)
    IN IF loaded.exc # "" THEN loaded
       ELSE LET it == Iterate(loaded.val)
            IN IF it.exc # "" THEN it ELSE Scan(it.val, title)


(***************************************************************************)
(* The plugin functions                                                    *)
(***************************************************************************)
\* str(value) inside an f-string.
Str(v) == IF v.t = "str" THEN v.chars ELSE <<ToString(v)>>

\* sep.join(strs): every element must be a str.
RECURSIVE Join(_, _)
Join(sep, strs) ==
    IF strs = <<>> THEN Val(JStr(<<>>))
    ELSE IF Head(strs).t # "str" THEN Raise("TypeError")
    ELSE IF Len(strs) = 1 THEN Val(Head(strs))
    ELSE LET rest == Join(sep, Tail(strs))
         IN IF rest.exc # "" THEN rest
            ELSE Val(JStr(Head(strs).chars \o sep \o rest.val.chars))

\* "\n".join(f"{key}: {value}" for key, value in article.items())
ArticleText(article) ==
    IF article.t # "obj" THEN Raise("AttributeError")
    ELSE LET ks == KeySeq(DOMAIN article.fields)
         IN Join(<<"\n">>,
                 [i \in 1..Len(ks) |-> JStr(<<ks[i], ": ">> \o Str(article.fields[ks[i]]))])

RECURSIVE ArticleTexts(_)
ArticleTexts(elems) ==
    IF elems = <<>> THEN Val(<<>>)
    ELSE LET first == ArticleText(Head(elems))
         IN IF first.exc # "" THEN first
            ELSE LET rest == ArticleTexts(Tail(elems))
                 IN IF rest.exc # "" THEN rest
                    ELSE Val(<<first.val>> \o rest.val)

\* len(x)
Length(x) ==
    CASE x.t = "list" -> Val(Len(x.elems))
      [] x.t = "str" -> Val(Len(x.chars))
      [] x.t = "obj" -> Val(Cardinality(DOMAIN x.fields))
      [] OTHER -> Raise("TypeError")

\* update_news, given what update_news_data returned.
update_news(success) ==
    JObj([operation |-> S("update_news"),
          success |-> JBool(success),
          message |-> IF success THEN S("News data updated successfully")
                      ELSE S("Failed to update news data")])

list_titles(f, output_mode) ==
    LET titles == get_all_titles(f)
    IN IF titles.exc # "" THEN titles
       ELSE IF output_mode = "text" THEN Join(<<"\n">>, titles.val.elems)
       ELSE Val(JObj([operation |-> S("list_titles"),
                      titles |-> titles.val,
                      total_count |-> JNum(Len(titles.val.elems)),
                      message |-> JStr(<<"Found ", ToString(Len(titles.val.elems)),
                                         " articles">>)]))

get_article_details(f, title, output_mode) ==
    LET info == get_article_info(f, title)
    IN IF info.exc # "" THEN info
       ELSE IF output_mode = "text"
            THEN IF ~Truthy(info.val) THEN Val(JStr(<<>>)) ELSE ArticleText(info.val)
            ELSE Val(JObj([operation |-> S("get_article_details"),
                           title |-> title,
                           article |-> info.val,
                           message |-> IF Truthy(info.val) THEN S("Article found")
                                       ELSE S("Article not found")]))

get_file_data(f, output_mode) ==
    LET contents == get_file_contents(f)
    IN IF contents.exc # "" THEN contents
       ELSE IF output_mode = "text"
            THEN IF ~Truthy(contents.val) THEN Val(JStr(<<>>))
                 ELSE LET it == Iterate(contents.val)
                      IN IF it.exc # "" THEN it
                         ELSE LET blocks == ArticleTexts(it.val)
                              IN IF blocks.exc # "" THEN blocks
                                 ELSE Join(<<"\n", "\n">>, blocks.val)
            ELSE LET n == Length(contents.val)
                 IN IF n.exc # "" THEN n
                    ELSE Val(JObj([operation |-> S("get_file_contents"),
                                   articles |-> contents.val,
                                   total_count |-> JNum(n.val),
                                   message |-> JStr(<<"File contains ", ToString(n.val),
                                                      " articles">>)]))

(***************************************************************************)
(* main()                                                                  *)
(***************************************************************************)
Operations == {"update_news", "list_titles", "get_article_details", "get_file_contents"}

\* os.getenv("HA_TOKEN") in _load_ha_token, called by the constructor.
_load_ha_token(token) == IF token = JNull THEN Raise("RuntimeError") ELSE Val(token)

NoCall == [operation |-> "none"]
Args(operation, title, output, token) ==
    [operation |-> operation, title |-> title, output |-> output, token |-> token]

NoRet == [exc |-> "none"]

NoOut == [form |-> "none"]
\* argparse rejects the arguments: usage text on stderr, exit status 2.
UsageError == [form |-> "usage"]
Traceback(e) == [form |-> "traceback", exc |-> e]

\* The end of main(): print(result) for a str, json.dumps for anything else;
\* an exception of the operation leaves main() as it is.
Emit(result) ==
    IF result.exc # "" THEN Traceback(result.exc)
    ELSE IF result.val.t = "str" THEN [form |-> "text", body |-> result.val]
    ELSE [form |-> "json", body |-> result.val]

MissingTitle == JObj([error |-> S("Title parameter required for get_article_details")])


(***************************************************************************)
(* The state machine: each process runs main(), one invocation at a time   *)
(***************************************************************************)
Token == S("token")
TitleArgs == {JNull, JStr(<<>>), S("A"), S("B"), S("C")}
OutputModes == {"json", "text"}
BadOperations == {"bogus"}

True == Val(JBool(TRUE))
False == Val(JBool(FALSE))

\* Another process is between the open and the close of its store write.
Overlaps(p) == \E q \in Procs \ {p} : pc[q] \in {"open", "write"}

Init ==
    /\ file = Absent
    /\ pc = [p \in Procs |-> "idle"]
    /\ call = [p \in Procs |-> NoCall]
    /\ resp = [p \in Procs |-> NoAnswers]
    /\ articles = [p \in Procs |-> <<>>]
    /\ woff = [p \in Procs |-> 0]
    /\ ret = [p \in Procs |-> NoRet]
    /\ out = [p \in Procs |-> NoOut]
    /\ error = [p \in Procs |-> ""]
    /\ during = [p \in Procs |-> FALSE]

\* An invocation that ends without touching the store or the sources.
Ends(p, args, output) ==
    /\ pc[p] = "idle"
    /\ pc' = [pc EXCEPT ![p] = "done"]
    /\ call' = [call EXCEPT ![p] = args]
    /\ out' = [out EXCEPT ![p] = output]
    /\ UNCHANGED <<file, resp, articles, woff, ret, error, during>>

\* A query: the manager method reads the store once; main() emits `result`.
Query(p, args, returned, result) ==
    /\ pc[p] = "idle"
    /\ pc' = [pc EXCEPT ![p] = "done"]
    /\ call' = [call EXCEPT ![p] = args]
    /\ ret' = [ret EXCEPT ![p] = returned]
    /\ out' = [out EXCEPT ![p] = Emit(result)]
    /\ during' = [during EXCEPT ![p] = Overlaps(p)]
    /\ UNCHANGED <<file, resp, articles, woff, error>>

\* parse_args() on an --operation that is none of the choices.
MainUsage(p, operation) ==
    /\ operation \notin Operations
    /\ Ends(p, Args(operation, JNull, "json", Token), UsageError)

\* NewsFeedManager(...) with HA_TOKEN unset.
MainNoToken(p, operation) ==
    /\ operation \in Operations
    /\ Ends(p, Args(operation, JNull, "json", JNull), Emit(_load_ha_token(JNull)))

\* get_article_details with no --title, or an empty one.
MainMissingTitle(p, title, output) ==
    /\ ~Truthy(title)
    /\ Ends(p, Args("get_article_details", title, output, Token), Emit(Val(MissingTitle)))

MainListTitles(p, output) ==
    Query(p, Args("list_titles", JNull, output, Token),
          get_all_titles(file), list_titles(file, output))

MainGetArticleDetails(p, title, output) ==
    /\ Truthy(title)
    /\ Query(p, Args("get_article_details", title, output, Token),
             get_article_info(file, title), get_article_details(file, title, output))

MainGetFileContents(p, output) ==
    Query(p, Args("get_file_contents", JNull, output, Token),
          get_file_contents(file), get_file_data(file, output))

\* update_news_data returns or raises: update_news wraps a return value, and
\* main() prints it.
Finish(p, outcome) ==
    /\ pc' = [pc EXCEPT ![p] = "done"]
    /\ ret' = [ret EXCEPT ![p] = outcome]
    /\ out' = [out EXCEPT ![p] =
                 IF outcome.exc # "" THEN Traceback(outcome.exc)
                 ELSE Emit(Val(update_news(outcome.val.b)))]

\* An exception inside the try block of update_news_data: the handler turns
\* the classes it catches into False.
Fail(p, e) ==
    /\ Finish(p, IF CaughtByUpdate(e) THEN False ELSE Raise(e))
    /\ error' = [error EXCEPT ![p] = e]

\* update_news: the sources answer `answers`, one per sensor; the loop builds
\* the articles or raises.
MainUpdateNews(p, answers) ==
    /\ pc[p] = "idle"
    /\ call' = [call EXCEPT ![p] = Args("update_news", JNull, "json", Token)]
    /\ resp' = [resp EXCEPT ![p] = answers]
    /\ LET fetched == Fetch(answers, 1, <<>>)
       IN IF fetched.exc # ""
          THEN /\ Fail(p, fetched.exc)
               /\ UNCHANGED articles
          ELSE /\ articles' = [articles EXCEPT ![p] = fetched.val]
               /\ pc' = [pc EXCEPT ![p] = "open"]
               /\ UNCHANGED <<ret, out, error>>
    /\ UNCHANGED <<file, woff, during>>

\* open(self.output_file, "w"): refused by the file system, or the file is
\* created or truncated.
UpdateOpen(p, refused) ==
    /\ pc[p] = "open"
    /\ IF refused
       THEN /\ Fail(p, "PermissionError")
            /\ UNCHANGED <<file, woff>>
       ELSE /\ file' = OpenForWrite(file)
            /\ woff' = [woff EXCEPT ![p] = 0]
            /\ pc' = [pc EXCEPT ![p] = "write"]
            /\ UNCHANGED <<ret, out, error>>
    /\ UNCHANGED <<call, resp, articles, during>>

\* One flush of the buffered text of json.dump: the next k cells reach the
\* file at this process's offset, or the write fails; the last flush is the
\* close, after which update_news_data returns True.
UpdateWrite(p, k, failed) ==
    /\ pc[p] = "write"
    /\ LET doc == Dump(articles[p])
       IN /\ k \in 1..(Len(doc) - woff[p])
          /\ IF failed
             THEN /\ Fail(p, "OSError")
                  /\ UNCHANGED <<file, woff>>
             ELSE /\ file' = WriteAt(file, woff[p], SubSeq(doc, woff[p] + 1, woff[p] + k))
                  /\ woff' = [woff EXCEPT ![p] = woff[p] + k]
                  /\ UNCHANGED error
                  /\ IF woff[p] + k = Len(doc)
                     THEN Finish(p, True)
                     ELSE UNCHANGED <<pc, ret, out>>
    /\ UNCHANGED <<call, resp, articles, during>>

\* The process exits; the next invocation starts afresh.
Return(p) ==
    /\ pc[p] = "done"
    /\ pc' = [pc EXCEPT ![p] = "idle"]
    /\ call' = [call EXCEPT ![p] = NoCall]
    /\ resp' = [resp EXCEPT ![p] = NoAnswers]
    /\ articles' = [articles EXCEPT ![p] = <<>>]
    /\ woff' = [woff EXCEPT ![p] = 0]
    /\ ret' = [ret EXCEPT ![p] = NoRet]
    /\ out' = [out EXCEPT ![p] = NoOut]
    /\ error' = [error EXCEPT ![p] = ""]
    /\ during' = [during EXCEPT ![p] = FALSE]
    /\ UNCHANGED file

\* One caller at a time: invocations follow one another.
Next ==
    \/ \E operation \in BadOperations : MainUsage(1, operation)
    \/ \E operation \in Operations : MainNoToken(1, operation)
    \/ \E title \in TitleArgs, output \in OutputModes : MainMissingTitle(1, title, output)
    \/ \E output \in OutputModes : MainListTitles(1, output)
    \/ \E title \in TitleArgs, output \in OutputModes : MainGetArticleDetails(1, title, output)
    \/ \E output \in OutputModes : MainGetFileContents(1, output)
    \/ \E answers \in AnswerLists(Answers) : MainUpdateNews(1, answers)
    \/ \E refused \in BOOLEAN : UpdateOpen(1, refused)
    \/ \E failed \in BOOLEAN, k \in 1..(Len(Dump(articles[1]))) : UpdateWrite(1, k, failed)
    \/ Return(1)

Spec == Init /\ [][Next]_vars


(***************************************************************************)
(* The store as somebody else left it: no file, an empty file, text that   *)
(* is no JSON, bytes that are no text, and JSON documents of other shapes  *)
(***************************************************************************)
ArticleA == MapItem(ItemA).val
ArticleB == MapItem(ItemB).val

ForeignFiles ==
    { Absent,
      FileOf(<<>>),
      FileOf(<<Junk>>),
      FileOf(<<LB, BadBytes, RB>>),
      FileOf(Dump(<<ArticleB, ArticleA>>)),
      FileOf(Dump(<<JObj([Name |-> S("x")])>>)),
      FileOf(Dump(<<JNum(1)>>)),
      FileOf(<<Elem(JObj([a |-> JNum(1)]))>>),
      FileOf(<<Elem(JObj(NoFields))>>),
      FileOf(<<Elem(JNum(5))>>),
      FileOf(<<Elem(JNull)>>) }

InitForeign ==
    /\ file \in ForeignFiles
    /\ pc = [p \in Procs |-> "idle"]
    /\ call = [p \in Procs |-> NoCall]
    /\ resp = [p \in Procs |-> NoAnswers]
    /\ articles = [p \in Procs |-> <<>>]
    /\ woff = [p \in Procs |-> 0]
    /\ ret = [p \in Procs |-> NoRet]
    /\ out = [p \in Procs |-> NoOut]
    /\ error = [p \in Procs |-> ""]
    /\ during = [p \in Procs |-> FALSE]

SpecForeign == InitForeign /\ [][Next]_vars

(***************************************************************************)
(* Two processes on one store file, one invocation each, no lock           *)
(***************************************************************************)
Feed(items) == Answer(200, TRUE, Payload(JList(items)))

ConcAnswerLists ==
    { <<Feed(<<ItemA>>), Feed(<<>>)>>,
      <<Feed(<<ItemA2>>), Feed(<<ItemB>>)>> }

\* The store the two processes find: what a refresh that fetched ItemB left.
ConcStore == FileOf(Dump(<<ArticleB>>))

InitConc ==
    /\ file = ConcStore
    /\ pc = [p \in Procs |-> "idle"]
    /\ call = [p \in Procs |-> NoCall]
    /\ resp = [p \in Procs |-> NoAnswers]
    /\ articles = [p \in Procs |-> <<>>]
    /\ woff = [p \in Procs |-> 0]
    /\ ret = [p \in Procs |-> NoRet]
    /\ out = [p \in Procs |-> NoOut]
    /\ error = [p \in Procs |-> ""]
    /\ during = [p \in Procs |-> FALSE]

NextConc ==
    \E p \in Procs :
        \/ \E output \in OutputModes : MainListTitles(p, output)
        \/ \E title \in TitleArgs, output \in OutputModes :
               MainGetArticleDetails(p, title, output)
        \/ \E output \in OutputModes : MainGetFileContents(p, output)
        \/ \E answers \in ConcAnswerLists : MainUpdateNews(p, answers)
        \/ \E refused \in BOOLEAN : UpdateOpen(p, refused)
        \/ \E failed \in BOOLEAN, k \in 1..(Len(Dump(articles[p]))) :
               UpdateWrite(p, k, failed)

SpecConc == InitConc /\ [][NextConc]_vars


(***************************************************************************)
(* What the claims speak of                                                *)
(***************************************************************************)
ItemPath == <<"attributes", "rss", "channel", "item">>

\* The answer is a 2xx JSON body with a list under attributes.rss.channel.item.
IsFeed(answer) ==
    /\ answer.net = "ok"
    /\ answer.status < 400
    /\ answer.json
    /\ Path(answer.data, ItemPath).exc = ""
    /\ Path(answer.data, ItemPath).val.t = "list"

ItemsOf(answer) == IF IsFeed(answer) THEN Path(answer.data, ItemPath).val.elems ELSE <<>>

\* The article of a feed item, field by field.
ArticleOf(item) ==
    JObj([Published |-> item.fields.pubDate,
          Title |-> item.fields.title,
          Description |-> IF "description" \in DOMAIN item.fields
                          THEN item.fields.description ELSE S("No description"),
          Link |-> item.fields.link])

\* The items of the first source, then those of the second, each in its order.
Collected(answers) ==
    LET a == ItemsOf(answers[1])
        b == ItemsOf(answers[2])
    IN [i \in 1..(Len(a) + Len(b)) |-> ArticleOf(IF i <= Len(a) THEN a[i] ELSE b[i - Len(a)])]

\* An answer of one of the kinds that make a fetch fail: no connection, an
\* error status, a body that is no JSON, no item path, or a list with an
\* element that is no object or lacks a required field.
FailsFetch(answer) ==
    \/ answer.net = "refused"
    \/ answer.status >= 400
    \/ ~answer.json
    \/ Path(answer.data, ItemPath).exc # ""
    \/ /\ Path(answer.data, ItemPath).val.t = "list"
       /\ \E i \in 1..Len(Path(answer.data, ItemPath).val.elems) :
             LET e == Path(answer.data, ItemPath).val.elems[i]
             IN \/ e.t # "obj"
                \/ ~({"pubDate", "title", "link"} \subseteq DOMAIN e.fields)

Refreshed(p) == pc[p] = "done" /\ call[p].operation = "update_news" /\ call[p].token = Token

Asked(p, operation) ==
    /\ pc[p] = "done"
    /\ call[p].operation = operation
    /\ call[p].token = Token
    /\ (operation = "get_article_details" => Truthy(call[p].title))

\* The text of the file is no JSON document.
NotJson(f) ==
    /\ f.exists
    /\ \/ \E i \in 1..Len(f.cells) : f.cells[i] = BadBytes
       \/ Parse(f.cells).exc # ""

\* What the query of invocation c returns on store file f.
Answered(c, f) ==
    CASE c.operation = "list_titles" -> get_all_titles(f)
      [] c.operation = "get_article_details" -> get_article_info(f, c.title)
      [] c.operation = "get_file_contents" -> get_file_contents(f)

Queries == {"list_titles", "get_article_details", "get_file_contents"}

(***************************************************************************)
(* C1: when a source answers with an error or without the item list, no    *)
(* step of the refresh changes the store file (an absent file stays        *)
(* absent) and the refresh returns False                                   *)
(***************************************************************************)
C1_FailedSourceLeavesStore ==
    [][\A p \in Procs :
          (/\ pc[p] \in {"idle", "open", "write"}
           /\ pc'[p] # pc[p] \/ woff'[p] # woff[p]
           /\ call'[p].operation = "update_news"
           /\ call'[p].token = Token
           /\ \E i \in 1..Len(Sensors) : ~IsFeed(resp'[p][i]))
              => /\ file' = file
                 /\ pc'[p] = "done" => ret'[p] = False]_vars

C4_LoadAbsorbsBadStore ==
    \A p \in Procs :
        ((\E q \in Queries : Asked(p, q)) /\ (~file.exists \/ NotJson(file)))
            => ret[p] = IF call[p].operation = "get_article_details"
                        THEN Val(JNull) ELSE Val(JList(<<>>))

(***************************************************************************)
(* C5: when two processes refresh concurrently and both return True, the   *)
(* store file is the complete document of one of the two                   *)
(***************************************************************************)
C5_LastWriterWins ==
    (\A p \in Procs : Refreshed(p) /\ ret[p] = True)
        => \E p \in Procs : file = FileOf(Dump(articles[p]))

(***************************************************************************)
(* C6: get_article_info(t) returns the article at the smallest index whose *)
(* Title equals t, and None when the stored collection has no such article *)
(***************************************************************************)
C6_FirstMatch ==
    \A p \in Procs :
        Asked(p, "get_article_details") =>
            LET stored == get_file_contents(file).val.elems
                hits == {i \in 1..Len(stored) : stored[i].fields.Title = call[p].title}
            IN ret[p] = IF hits = {} THEN Val(JNull)
                        ELSE Val(stored[CHOOSE i \in hits : \A j \in hits : i <= j])

C6_Witness ==
    \E p \in Procs :
        /\ Asked(p, "get_article_details")
        /\ call[p].title = S("A")
        /\ file = FileOf(Dump(<<ArticleA, ArticleOf(ItemA2)>>))
        /\ ret[p] = Val(ArticleA)

(***************************************************************************)
(* C7: read in the same store state, the list of titles has the length of  *)
(* the dumped collection and its i-th element is the i-th article's Title  *)
(***************************************************************************)
C7_TitlesMatchDump ==
    \A p \in Procs :
        Asked(p, "list_titles") =>
            LET dumped == get_file_contents(file)
            IN /\ ret[p].exc = ""
               /\ dumped.exc = ""
               /\ Len(ret[p].val.elems) = Len(dumped.val.elems)
               /\ \A i \in 1..Len(dumped.val.elems) :
                      ret[p].val.elems[i] = dumped.val.elems[i].fields.Title

C7_Witness ==
    \E p \in Procs :
        /\ Asked(p, "list_titles")
        /\ file = FileOf(Dump(<<ArticleA, ArticleOf(ItemA2)>>))
        /\ ret[p] = Val(JList(<<S("A"), S("A")>>))

(***************************************************************************)
(* C8: each of the four operations, in both output modes, for every store  *)
(* file, ends with one JSON or text response (stated here for invocations  *)
(* whose HA_TOKEN is set; without it the constructor's RuntimeError leaves *)
(* main() as well)                                                         *)
(***************************************************************************)
C8_AlwaysAResponse ==
    \A p \in Procs :
        (pc[p] = "done" /\ call[p].operation \in Operations /\ call[p].token = Token)
            => out[p].form \in {"json", "text"}

(***************************************************************************)
(* C9: an unknown operation, or get_article_details without a title, ends  *)
(* with a JSON object that has the error beside the operation name and a   *)
(* message, and no manager method has run                                  *)
(***************************************************************************)
C9_StructuredError ==
    \A p \in Procs :
        (/\ pc[p] = "done"
         /\ \/ call[p].operation \notin Operations
            \/ /\ call[p].operation = "get_article_details"
               /\ call[p].token = Token
               /\ ~Truthy(call[p].title))
            => /\ out[p].form = "json"
               /\ out[p].body.t = "obj"
               /\ {"error", "operation", "message"} \subseteq DOMAIN out[p].body.fields
               /\ ret[p] = NoRet

(***************************************************************************)
(* C10: a query that reads the store while another process's successful    *)
(* refresh is in progress returns what it would return on the store before *)
(* that refresh or on the store after it                                   *)
(***************************************************************************)
C10_QuerySeesOldOrNew ==
    \A w \in Procs, r \in Procs :
        (/\ w # r
         /\ Refreshed(w) /\ ret[w] = True
         /\ \E q \in Queries : Asked(r, q)
         /\ during[r])
            => \/ ret[r] = Answered(call[r], ConcStore)
               \/ ret[r] = Answered(call[r], FileOf(Dump(articles[w])))

=============================================================================
